---- MODULE Spec2Model ----
(***************************************************************************)
(* Otto CLI (src/index.js): the interactive menu and the flows it starts   *)
(* (release, branch, stash, undo, sync), each a sequence of synchronous    *)
(* external commands issued through sh().                                  *)
(*                                                                         *)
(* The git repository is the shared state.  A commit is a number; a tag is *)
(* identified with the commit it points at; the index and the working tree *)
(* are sets of change tokens (0 is an uncommitted working-tree change, a   *)
(* commit number n stands for "the changes of commit n").                  *)
(*                                                                         *)
(* Local read-only queries (rev-parse, status, diff --cached, describe,    *)
(* log, symbolic-ref) are functions of the repository state.  Commands     *)
(* that change the repository or use the network may fail: their outcome   *)
(* is an input of the step (\E ok \in BOOLEAN), limited by what the        *)
(* command needs in order to succeed.                                      *)
(***************************************************************************)
EXTENDS Integers, Sequences, FiniteSets, TLC

VARIABLES
    isRepo, apiKey, webhook,                \* environment of the process
    heads, branch, branches, tags, index, wt, stash,  \* the local repository
    remote, nextId,                         \* branches on origin; next commit number
    pc, op, runs,                           \* control: position, menu choice, flows started
    config, diff, ai, commitInfo,           \* flowRelease locals
    target, stashed,                        \* flowBranch locals
    history, targetHash, resetMode, safe,   \* flowUndo locals
    log, notes, posted,                     \* commands issued, messages shown, webhook POSTs (this run)
    start, runCommit, runTag,               \* repository at the start of the run; commit / tag made in it
    runSubject, cancelled                   \* subject of that commit; the operator cancelled a prompt

envVars  == <<isRepo, apiKey, webhook>>
repoVars == <<heads, branch, branches, tags, index, wt, stash, remote, nextId>>
relVars  == <<config, diff, ai, commitInfo>>
brVars   == <<target, stashed>>
undoVars == <<history, targetHash, resetMode, safe>>
runRest  == <<start, runCommit, runTag, runSubject>>
runVars  == <<start, runCommit, runTag, runSubject, cancelled>>
vars == <<isRepo, apiKey, webhook, heads, branch, branches, tags, index, wt, stash, remote,
          nextId, pc, op, runs, config, diff, ai, commitInfo, target, stashed,
          history, targetHash, resetMode, safe, log, notes, posted, start, runCommit, runTag,
          runSubject, cancelled>>

----------------------------------------------------------------------------
(* Bounds *)

MaxBase == 2        \* commits on the branch before the tool starts: 0..MaxBase
MaxRuns == 1        \* flows started from the menu in one session

BranchNames == {"main", "dev", "feat"}
ReleaseTypes == {"patch", "minor", "major", "none"}
PushModes == {"safe", "force"}
\* A message is a sequence of characters: "a" stands for ordinary text, "dq"
\* for a double quote, "bs" for a backslash and "$v" for a reference to a shell
\* variable that is not set.
\* what the operator may leave in the commit message prompt
Msgs == {<<"a">>, <<"a", "dq">>, <<"$v", "a">>}
\* JSON.parse of the completion: an object with both keys, or "{}" (no keys)
AiResults == {[msg |-> <<"a">>, desc |-> "adds a"], [msg |-> <<>>, desc |-> ""]}

----------------------------------------------------------------------------
(* Helpers *)

Last(s) == s[Len(s)]
Front(s) == SubSeq(s, 1, Len(s) - 1)
Range(s) == {s[i] : i \in 1..Len(s)}
Head_ == heads[branch]          \* the history HEAD points at, oldest first

Cmds == {log[i].cmd : i \in 1..Len(log)}
Failed == {log[i].cmd : i \in {j \in 1..Len(log) : ~log[j].ok}}
Ok == {log[i].cmd : i \in {j \in 1..Len(log) : log[j].ok}}
Pos(c) == IF c \in Cmds THEN CHOOSE i \in 1..Len(log) : log[i].cmd = c ELSE 0

\* sh(cmd): the command is issued and either returns or throws
sh(cmd, ok) == log' = Append(log, [cmd |-> cmd, ok |-> ok])

NoConfig == [type |-> "none", push |-> "safe", ok |-> FALSE]
NoAi == [msg |-> <<>>, desc |-> ""]
NoCommitInfo == [msg |-> <<>>, desc |-> ""]
NoSnapshot == [head |-> <<>>, tags |-> {}, stash |-> <<>>, dirty |-> FALSE]

\* git status --porcelain is non-empty
isDirty == index # {} \/ wt # {}

\* git diff --cached: "" when nothing is staged
rawDiff == IF index # {} THEN "diff" ELSE ""

\* git describe --tags --abbrev=0: the nearest tag reachable from HEAD, 0 ("") if none
describe ==
    LET at == {i \in 1..Len(Head_) : Head_[i] \in tags}
    IN IF at = {} THEN 0 ELSE Head_[CHOOSE i \in at : \A j \in at : j <= i]

----------------------------------------------------------------------------
(* Initial state: the process starts inside or outside a repository *)

\* what the process finds when it starts
InitWorld ==
    /\ isRepo \in BOOLEAN
    /\ apiKey \in (IF isRepo THEN BOOLEAN ELSE {FALSE})
    /\ webhook \in (IF isRepo THEN BOOLEAN ELSE {FALSE})
    /\ branch = "main"
    /\ branches = (IF isRepo THEN {"main", "dev"} ELSE {})
    /\ \E n \in (IF isRepo THEN 0..MaxBase ELSE {0}) :
        /\ heads = [b \in BranchNames |-> IF b \in branches THEN [i \in 1..n |-> i] ELSE <<>>]
        /\ nextId = n + 1
        /\ tags \in SUBSET (1..n)
    /\ index = {}
    /\ wt \in (IF isRepo THEN {{}, {0}} ELSE {{}})
    /\ stash \in (IF isRepo THEN {<<>>, <<[msg |-> "WIP", run |-> 0, ch |-> {0}]>>} ELSE {<<>>})
    /\ remote \in (IF isRepo THEN {{}, {"main"}} ELSE {{}})

FreshLocals ==
    /\ config = NoConfig /\ diff = "" /\ ai = NoAi /\ commitInfo = NoCommitInfo
    /\ target = "main" /\ stashed = FALSE
    /\ history = <<>> /\ targetHash = 0 /\ resetMode = "none" /\ safe = "none"
    /\ log = <<>> /\ posted = <<>>
    /\ runCommit = 0 /\ runTag = 0 /\ runSubject = <<>> /\ cancelled = FALSE

FirstPc(o) ==
    CASE o = "release" -> "r_config"
      [] o = "branch" -> "b_action"
      [] o = "undo" -> "u_log"
      [] o = "sync" -> "s_fetch"
      [] o = "stash" -> "st_action"

\* every flow begins: if (!git.isRepo()) { note("Not a git repository."); return }
Entry(o) == IF isRepo THEN FirstPc(o) ELSE "return"
EntryNotes == IF isRepo THEN {} ELSE {"Not a git repository."}

\* `otto <o>`: program.command(o).action runs the one flow (the update check
\* before it has been answered; InitWorld is the repository it leaves)
Boot(o) ==
    /\ InitWorld
    /\ FreshLocals
    /\ op = o /\ runs = 1
    /\ pc = Entry(o)
    /\ notes = EntryNotes
    /\ start = [head |-> Head_, tags |-> tags, stash |-> stash, dirty |-> isDirty]

\* `otto` without arguments: mainMenu begins with checkForUpdates
Init ==
    /\ InitWorld
    /\ FreshLocals
    /\ op = "none" /\ runs = 0
    /\ pc = "m_updates"
    /\ notes = {}
    /\ start = NoSnapshot

----------------------------------------------------------------------------
(* mainMenu: select an operation, run its flow, show the menu again *)

\* checkForUpdates: outside a repository nothing is done; `git fetch` runs with
\* its failure ignored; the branch can only be behind a branch origin has
checkForUpdates_fetch ==
    /\ pc = "m_updates"
    /\ IF ~isRepo
       THEN /\ pc' = "menu"
            /\ UNCHANGED log
       ELSE \E ok \in BOOLEAN, behind \in (IF branch \in remote THEN BOOLEAN ELSE {FALSE}) :
            /\ sh("git fetch", ok)
            /\ pc' = IF behind THEN "m_confirm" ELSE "menu"
    /\ UNCHANGED <<envVars, repoVars, op, runs, relVars, brVars, undoVars, notes, posted,
                   runVars>>

\* confirm("Pull them?"): if (isCancel(shouldPull)) process.exit(0)
checkForUpdates_confirm ==
    /\ pc = "m_confirm"
    /\ \E v \in {"true", "false", "cancel"} :
        /\ pc' = IF v = "cancel" THEN "exit" ELSE IF v = "true" THEN "m_pull" ELSE "menu"
        /\ cancelled' = (v = "cancel")
    /\ UNCHANGED <<envVars, repoVars, op, runs, relVars, brVars, undoVars, log, notes,
                   posted, runRest>>

\* a pull that works brings the commits the branch was behind by
checkForUpdates_pull ==
    /\ pc = "m_pull"
    /\ \E ok \in BOOLEAN :
        /\ sh("git pull origin", ok)
        /\ heads' = (IF ok THEN [heads EXCEPT ![branch] = Append(@, nextId)] ELSE heads)
        /\ nextId' = (IF ok THEN nextId + 1 ELSE nextId)
        /\ notes' = notes \cup {IF ok THEN "Updated" ELSE "Pull Failed"}
    /\ pc' = "menu"
    /\ UNCHANGED <<envVars, branch, branches, tags, index, wt, stash, remote, op, runs,
                   relVars, brVars, undoVars, posted, runVars>>

checkForUpdates == checkForUpdates_fetch \/ checkForUpdates_confirm \/ checkForUpdates_pull

\* a flow starts: its locals are fresh and the run's record is empty
mainMenu_select ==
    /\ pc = "menu" /\ runs < MaxRuns
    /\ \E o \in {"release", "branch", "stash", "undo", "sync"} :
        /\ op' = o
        /\ pc' = Entry(o)
    /\ notes' = EntryNotes
    /\ runs' = runs + 1
    /\ config' = NoConfig /\ diff' = "" /\ ai' = NoAi /\ commitInfo' = NoCommitInfo
    /\ target' = "main" /\ stashed' = FALSE
    /\ history' = <<>> /\ targetHash' = 0 /\ resetMode' = "none" /\ safe' = "none"
    /\ log' = <<>> /\ posted' = <<>>
    /\ start' = [head |-> Head_, tags |-> tags, stash |-> stash, dirty |-> isDirty]
    /\ runCommit' = 0 /\ runTag' = 0 /\ runSubject' = <<>> /\ cancelled' = FALSE
    /\ UNCHANGED <<envVars, repoVars>>

AfterFlow_Exits == "exit"

\* while (true): when the flow has returned the menu is shown again
AfterFlow == "menu"

\* the flow returned: the loop shows the menu again
mainMenu_loop ==
    /\ pc = "return"
    /\ pc' = AfterFlow
    /\ UNCHANGED <<envVars, repoVars, op, runs, relVars, brVars, undoVars, log, notes,
                   posted, runVars>>

mainMenu_quit ==
    /\ pc = "menu"
    /\ pc' = "exit"
    /\ UNCHANGED <<envVars, repoVars, op, runs, relVars, brVars, undoVars, log, notes,
                   posted, runVars>>

mainMenu == checkForUpdates \/ mainMenu_select \/ mainMenu_loop \/ mainMenu_quit

----------------------------------------------------------------------------
(* flowRelease: configuration prompts, build pipeline, commit, bump, push *)

StepCmds == {"git fetch origin main", "install", "run build", "git add ."}
PushCmds == {"git push origin HEAD --tags", "git push origin HEAD --force --tags"}
RollbackCmds == {"git tag -d", "git reset --soft HEAD~1"}

\* if (canceled || !config.ok) return
ConfigAborts(canceled, cfg) == canceled \/ ~cfg.ok

flowRelease_config ==
    /\ pc = "r_config"
    /\ \E canceled \in BOOLEAN, t \in ReleaseTypes, p \in PushModes, okv \in BOOLEAN :
        LET cfg == IF canceled THEN NoConfig ELSE [type |-> t, push |-> p, ok |-> okv]
        IN /\ config' = (IF ConfigAborts(canceled, cfg) THEN NoConfig ELSE cfg)
           /\ pc' = IF ConfigAborts(canceled, cfg) THEN "return" ELSE "r_fetch"
           /\ cancelled' = canceled
    /\ UNCHANGED <<envVars, repoVars, op, runs, diff, ai, commitInfo, brVars, undoVars,
                   log, notes, posted, runRest>>

PipelineCatch_FallsThrough == "r_diff"

\* catch of the build pipeline: stop the spinner, show the error, return
PipelineCatch == "return"

\* one command of the build pipeline (it leaves the model's repository state alone)
PipelineStep(cmd, next) ==
    /\ \E ok \in BOOLEAN :
        /\ sh(cmd, ok)
        /\ pc' = IF ok THEN next ELSE PipelineCatch
        /\ notes' = IF ok THEN notes ELSE notes \cup {"Pipeline Failed"}
    /\ UNCHANGED <<envVars, repoVars, op, runs, relVars, brVars, undoVars, posted, runVars>>

flowRelease_fetch ==
    /\ pc = "r_fetch"
    /\ PipelineStep("git fetch origin main", "r_install")

flowRelease_install ==
    /\ pc = "r_install"
    /\ PipelineStep("install", "r_build")

\* hasBuild is read from package.json: an input of the run
flowRelease_build ==
    /\ pc = "r_build"
    /\ \E hasBuild \in BOOLEAN :
        IF hasBuild
        THEN PipelineStep("run build", "r_add")
        ELSE /\ pc' = "r_add"
             /\ UNCHANGED <<envVars, repoVars, op, runs, relVars, brVars, undoVars, log,
                            notes, posted, runVars>>

flowRelease_add ==
    /\ pc = "r_add"
    /\ \E ok \in BOOLEAN :
        /\ sh("git add .", ok)
        /\ index' = (IF ok THEN index \cup wt ELSE index)
        /\ wt' = (IF ok THEN {} ELSE wt)
        /\ pc' = IF ok THEN "r_diff" ELSE PipelineCatch
        /\ notes' = notes \cup {IF ok THEN "Build Pipeline Success" ELSE "Pipeline Failed"}
    /\ UNCHANGED <<envVars, heads, branch, branches, tags, stash, remote, nextId, op, runs, relVars,
                   brVars, undoVars, posted, runVars>>

CommitStepEntered_Always(d) == TRUE

\* if (diff) { commit step } else { note("No changes to commit") }
CommitStepEntered(d) == d # ""

flowRelease_diff ==
    /\ pc = "r_diff"
    /\ diff' = rawDiff
    /\ commitInfo' = [msg |-> <<"Manual/No Commit">>, desc |-> "No changes"]
    /\ pc' = IF CommitStepEntered(rawDiff) THEN "r_generate" ELSE "r_bump"
    /\ notes' = IF CommitStepEntered(rawDiff) THEN notes ELSE notes \cup {"No changes to commit"}
    /\ UNCHANGED <<envVars, repoVars, op, runs, config, ai, brVars, undoVars, log, posted,
                   runVars>>

\* catch of the commit step: a warning is shown and the flow goes on
CommitCatch == "r_bump"

\* generateCommit(diff): dies without a key; the completion request returns or throws
flowRelease_generate ==
    /\ pc = "r_generate"
    /\ IF ~apiKey
       THEN /\ pc' = "exit"
            /\ notes' = notes \cup {"Missing OPENAI_API_KEY"}
            /\ UNCHANGED <<log, ai>>
       ELSE \E ok \in BOOLEAN :
            /\ sh("generate", ok)
            /\ IF ok
               THEN /\ ai' \in AiResults
                    /\ pc' = "r_commit"
                    /\ UNCHANGED notes
               ELSE /\ pc' = CommitCatch
                    /\ notes' = notes \cup {"AI Generation failed or commit aborted"}
                    /\ UNCHANGED ai
    /\ UNCHANGED <<envVars, repoVars, op, runs, config, diff, commitInfo, brVars, undoVars,
                   posted, runVars>>

\* String(msg).replace(/"/g, '\\"'): a backslash is put before every double quote
RECURSIVE Escape(_)
Escape(s) ==
    IF s = <<>> THEN <<>>
    ELSE (IF Head(s) = "dq" THEN <<"bs", "dq">> ELSE <<Head(s)>>) \o Escape(Tail(s))

\* The shell reads the text between the double quotes of `git commit -m "..."`:
\* a backslash before a double quote, a backslash or a dollar sign yields that
\* character, any other backslash stays; a variable that is not set expands to
\* nothing; a bare double quote ends the quoted text early, which leaves the
\* closing quote of the command line without a partner (a syntax error).
RECURSIVE ShellQuoted(_)
ShellQuoted(s) ==
    IF s = <<>> THEN [ok |-> TRUE, text |-> <<>>]
    ELSE IF Head(s) = "dq" THEN [ok |-> FALSE, text |-> <<>>]
    ELSE IF Head(s) = "$v" THEN ShellQuoted(Tail(s))
    ELSE IF Head(s) = "bs" /\ Len(s) = 1 THEN [ok |-> FALSE, text |-> <<>>]
    ELSE IF Head(s) = "bs" /\ s[2] \in {"dq", "bs", "$v"}
         THEN LET r == ShellQuoted(Tail(Tail(s)))
              IN [ok |-> r.ok, text |-> <<s[2]>> \o r.text]
    ELSE LET r == ShellQuoted(Tail(s))
         IN [ok |-> r.ok, text |-> <<Head(s)>> \o r.text]

\* the -m argument git receives for the text the operator entered
CommitArg(msg) == ShellQuoted(Escape(msg))

TextCancel_Throws == "r_bump"

\* if (isCancel(msg)) return
TextCancel == "return"

\* the operator edits the subject (or cancels: return), then git commit -m;
\* git refuses an empty message and the shell refuses an unbalanced line
flowRelease_commit ==
    /\ pc = "r_commit"
    /\ \/ /\ pc' = TextCancel
          /\ cancelled' = TRUE
          /\ UNCHANGED <<repoVars, commitInfo, log, notes, runCommit, runSubject>>
       \/ \E msg \in Msgs :
          \E ok \in (IF CommitArg(msg).ok /\ CommitArg(msg).text # <<>> THEN BOOLEAN
                     ELSE {FALSE}) :
          /\ sh("git commit", ok)
          /\ IF ok
             THEN /\ heads' = [heads EXCEPT ![branch] = Append(@, nextId)]
                  /\ nextId' = nextId + 1
                  /\ index' = {}
                  /\ runCommit' = nextId
                  /\ runSubject' = CommitArg(msg).text
                  /\ commitInfo' = [msg |-> msg, desc |-> ai.desc]
                  /\ pc' = "r_bump"
                  /\ UNCHANGED notes
             ELSE /\ pc' = CommitCatch
                  /\ notes' = notes \cup {"AI Generation failed or commit aborted"}
                  /\ UNCHANGED <<heads, nextId, index, runCommit, runSubject, commitInfo>>
          /\ UNCHANGED <<branch, branches, tags, wt, stash, remote, cancelled>>
    /\ UNCHANGED <<envVars, op, runs, config, diff, ai, brVars, undoVars, posted, start,
                   runTag>>

\* catch of the bump-and-push block: "Push Failed. Rolling back"
ReleaseCatch == "r_tagdel"

\* if (config.type !== "none") sh(`${PM} version ${config.type}`)
\* npm version refuses an unclean working directory; when it succeeds it makes
\* a version commit and a tag on it
flowRelease_bump ==
    /\ pc = "r_bump"
    /\ IF config.type # "none"
       THEN \E ok \in (IF isDirty THEN {FALSE} ELSE BOOLEAN) :
            /\ sh("version", ok)
            /\ IF ok
               THEN /\ heads' = [heads EXCEPT ![branch] = Append(@, nextId)]
                    /\ tags' = tags \cup {nextId}
                    /\ runTag' = nextId
                    /\ nextId' = nextId + 1
                    /\ pc' = "r_push"
                    /\ UNCHANGED notes
               ELSE /\ pc' = ReleaseCatch
                    /\ notes' = notes \cup {"Push Failed. Rolling back"}
                    /\ UNCHANGED <<heads, tags, runTag, nextId>>
       ELSE /\ pc' = "r_push"
            /\ UNCHANGED <<heads, tags, runTag, nextId, log, notes>>
    /\ UNCHANGED <<envVars, branch, branches, index, wt, stash, remote, op, runs, relVars, brVars,
                   undoVars, posted, start, runCommit, runSubject, cancelled>>

PushCmd(cfg) ==
    IF cfg.push = "force" THEN "git push origin HEAD --force --tags"
    ELSE "git push origin HEAD --tags"

flowRelease_push ==
    /\ pc = "r_push"
    /\ \E ok \in BOOLEAN :
        /\ sh(PushCmd(config), ok)
        /\ remote' = (IF ok THEN remote \cup {branch} ELSE remote)
        /\ pc' = IF ok THEN "r_logToSheet" ELSE ReleaseCatch
        /\ notes' = IF ok THEN notes ELSE notes \cup {"Push Failed. Rolling back"}
    /\ UNCHANGED <<envVars, heads, branch, branches, tags, index, wt, stash, nextId, op, runs, relVars,
                   brVars, undoVars, posted, runVars>>

AfterPost_Throws(ok) ==
    IF ok THEN [pc |-> "return", note |-> "Deployed"]
    ELSE [pc |-> "r_tagdel", note |-> "Push Failed. Rolling back"]

\* logToSheet swallows a failed POST; the flow then reports "Deployed"
AfterPost(ok) == [pc |-> "return", note |-> "Deployed"]

flowRelease_logToSheet ==
    /\ pc = "r_logToSheet"
    /\ IF ~webhook
       THEN /\ pc' = AfterPost(TRUE).pc
            /\ notes' = notes \cup {AfterPost(TRUE).note}
            /\ UNCHANGED posted
       ELSE \E ok \in BOOLEAN :
            /\ posted' = Append(posted, [type |-> config.type, message |-> commitInfo.msg,
                                         description |-> commitInfo.desc, ok |-> ok])
            /\ pc' = AfterPost(ok).pc
            /\ notes' = notes \cup {AfterPost(ok).note}
    /\ UNCHANGED <<envVars, repoVars, op, runs, relVars, brVars, undoVars, log, runVars>>

RollbackDeletesTag_Never(cfg) == FALSE

\* if (config.type !== "none") { tag = describe; if (tag) sh(`git tag -d ${tag}`) }
RollbackDeletesTag(cfg) == cfg.type # "none"

\* a throw inside the rollback is caught and ignored: the flow returns
RollbackCatch == "return"

flowRelease_tagdel ==
    /\ pc = "r_tagdel"
    /\ IF RollbackDeletesTag(config) /\ describe # 0
       THEN \E ok \in BOOLEAN :
            /\ sh("git tag -d", ok)
            /\ tags' = (IF ok THEN tags \ {describe} ELSE tags)
            /\ pc' = IF ok THEN "r_reset" ELSE RollbackCatch
       ELSE /\ pc' = "r_reset"
            /\ UNCHANGED <<log, tags>>
    /\ UNCHANGED <<envVars, heads, branch, branches, index, wt, stash, remote, nextId, op, runs, relVars,
                   brVars, undoVars, notes, posted, runVars>>

\* git reset --soft HEAD~1 needs a parent; the removed commit's changes stay staged
flowRelease_reset ==
    /\ pc = "r_reset"
    /\ \E ok \in (IF Len(Head_) >= 2 THEN BOOLEAN ELSE {FALSE}) :
        /\ sh("git reset --soft HEAD~1", ok)
        /\ heads' = (IF ok THEN [heads EXCEPT ![branch] = Front(@)] ELSE heads)
        /\ index' = (IF ok THEN index \cup {Last(Head_)} ELSE index)
        /\ notes' = IF ok THEN notes \cup {"Tag deleted & commit reset."} ELSE notes
        /\ pc' = IF ok THEN "return" ELSE RollbackCatch
    /\ UNCHANGED <<envVars, branch, branches, tags, wt, stash, remote, nextId, op, runs, relVars, brVars,
                   undoVars, posted, runVars>>

flowRelease ==
    \/ flowRelease_config \/ flowRelease_fetch \/ flowRelease_install
    \/ flowRelease_build \/ flowRelease_add \/ flowRelease_diff
    \/ flowRelease_generate \/ flowRelease_commit \/ flowRelease_bump
    \/ flowRelease_push \/ flowRelease_logToSheet
    \/ flowRelease_tagdel \/ flowRelease_reset

----------------------------------------------------------------------------
(* flowBranch: switch (auto-stash, checkout, pop), create, update, open PR *)

flowBranch_action ==
    /\ pc = "b_action"
    /\ \E action \in {"switch", "create", "update", "pr", "cancel"} :
        /\ pc' = CASE action = "switch" -> "b_target"
                   [] action = "create" -> "b_create"
                   [] action = "update" -> "b_fetch"
                   [] action = "pr" -> "b_pr"
                   [] action = "cancel" -> "return"
        /\ cancelled' = (action = "cancel")
    /\ UNCHANGED <<envVars, repoVars, op, runs, relVars, brVars, undoVars, log, notes,
                   posted, runRest>>

\* select one of the other local branches, or cancel
flowBranch_target ==
    /\ pc = "b_target"
    /\ \/ /\ pc' = "return"
          /\ cancelled' = TRUE
          /\ UNCHANGED target
       \/ \E t \in branches \ {branch} :
          /\ target' = t
          /\ pc' = "b_stash"
          /\ UNCHANGED cancelled
    /\ UNCHANGED <<envVars, repoVars, op, runs, relVars, stashed, undoVars, log, notes,
                   posted, runRest>>

\* git.stash(): false when the tree is clean; otherwise `git stash push` is run
\* with its failure ignored and true is returned
git_stash(dirty, ok) == dirty

flowBranch_stash ==
    /\ pc = "b_stash"
    /\ IF ~isDirty
       THEN /\ stashed' = git_stash(FALSE, TRUE)
            /\ UNCHANGED <<log, stash, index, wt>>
       ELSE \E ok \in BOOLEAN :
            /\ sh("git stash push", ok)
            /\ stash' = (IF ok THEN <<[msg |-> "Otto Auto-Switch", run |-> runs,
                                       ch |-> index \cup wt]>> \o stash
                         ELSE stash)
            /\ index' = (IF ok THEN {} ELSE index)
            /\ wt' = (IF ok THEN {} ELSE wt)
            /\ stashed' = git_stash(TRUE, ok)
    /\ pc' = "b_checkout"
    /\ UNCHANGED <<envVars, heads, branch, branches, tags, remote, nextId, op, runs, relVars,
                   target, undoVars, notes, posted, runVars>>

AfterCheckout_IgnoresFailure(ok, st) == IF st THEN "b_pop" ELSE "return"

\* try { checkout } catch { return }; if (stashed) pop
AfterCheckout(ok, st) == IF ok /\ st THEN "b_pop" ELSE "return"

flowBranch_checkout ==
    /\ pc = "b_checkout"
    /\ \E ok \in BOOLEAN :
        /\ sh("git checkout", ok)
        /\ branch' = (IF ok THEN target ELSE branch)
        /\ pc' = AfterCheckout(ok, stashed)
        /\ notes' = notes \cup {IF ok THEN "Switched" ELSE "Checkout Failed"}
    /\ UNCHANGED <<envVars, heads, branches, tags, index, wt, stash, remote, nextId, op, runs,
                   relVars, brVars, undoVars, posted, runVars>>

AfterPop_Retries(ok) == IF ok THEN "return" ELSE "b_pop"

\* if (!git.pop()) { "Switched, but stash pop had conflicts."; return }; after a
\* pop that worked the switch block ends and the flow returns as well
AfterPop(ok) == "return"

\* git.pop(): `git stash pop` needs an entry; on success the top entry is
\* applied and dropped; on failure it stays (a conflict may leave its changes
\* in the tree) and the operator is told to resolve manually
flowBranch_pop ==
    /\ pc = "b_pop"
    /\ \E ok \in (IF stash # <<>> THEN BOOLEAN ELSE {FALSE}),
          applied \in (IF stash # <<>> THEN BOOLEAN ELSE {FALSE}) :
        /\ ok => applied
        /\ sh("git stash pop", ok)
        /\ wt' = (IF applied THEN wt \cup stash[1].ch ELSE wt)
        /\ stash' = (IF ok THEN Tail(stash) ELSE stash)
        /\ notes' = notes \cup {IF ok THEN "Switched to target"
                                 ELSE "Switched, but stash pop had conflicts."}
        /\ pc' = AfterPop(ok)
    /\ UNCHANGED <<envVars, heads, branch, branches, tags, index, remote, nextId, op, runs,
                   relVars, brVars, undoVars, posted, runVars>>

\* update: git fetch origin main, then git pull origin main
flowBranch_fetch ==
    /\ pc = "b_fetch"
    /\ \E ok \in BOOLEAN :
        /\ sh("git fetch origin main", ok)
        /\ pc' = IF ok THEN "b_pull" ELSE "return"
        /\ notes' = IF ok THEN notes ELSE notes \cup {"Update Failed"}
    /\ UNCHANGED <<envVars, repoVars, op, runs, relVars, brVars, undoVars, posted, runVars>>

\* a pull that succeeds may bring a commit from origin
Pulled(ok, new) ==
    /\ heads' = (IF ok /\ new THEN [heads EXCEPT ![branch] = Append(@, nextId)] ELSE heads)
    /\ nextId' = (IF ok /\ new THEN nextId + 1 ELSE nextId)

flowBranch_pull ==
    /\ pc = "b_pull"
    /\ \E ok \in BOOLEAN, new \in BOOLEAN :
        /\ sh("git pull origin main", ok)
        /\ Pulled(ok, new)
        /\ notes' = notes \cup {IF ok THEN "Branch updated from main" ELSE "Update Failed"}
    /\ pc' = "return"
    /\ UNCHANGED <<envVars, branch, branches, tags, index, wt, stash, remote, op, runs,
                   relVars, brVars, undoVars, posted, runVars>>

\* create: the operator names a branch (or cancels); git checkout -b fails on an
\* existing name
flowBranch_create ==
    /\ pc = "b_create"
    /\ \/ /\ cancelled' = TRUE
          /\ UNCHANGED <<heads, branch, branches, log, notes>>
       \/ \E name \in BranchNames, ok \in BOOLEAN :
          /\ UNCHANGED cancelled
          /\ ok => name \notin branches
          /\ sh("git checkout -b", ok)
          /\ branches' = (IF ok THEN branches \cup {name} ELSE branches)
          /\ heads' = (IF ok THEN [heads EXCEPT ![name] = Head_] ELSE heads)
          /\ branch' = (IF ok THEN name ELSE branch)
          /\ notes' = notes \cup {IF ok THEN "Created" ELSE "Failed"}
    /\ pc' = "return"
    /\ UNCHANGED <<envVars, tags, index, wt, stash, remote, nextId, op, runs, relVars, brVars,
                   undoVars, posted, runRest>>

\* pr: the browser is opened with sh(..., true); a failure is ignored
flowBranch_pr ==
    /\ pc = "b_pr"
    /\ \E ok \in BOOLEAN : sh("open", ok)
    /\ notes' = notes \cup {"Opened PR in browser"}
    /\ pc' = "return"
    /\ UNCHANGED <<envVars, repoVars, op, runs, relVars, brVars, undoVars, posted, runVars>>

flowBranch ==
    \/ flowBranch_action \/ flowBranch_target \/ flowBranch_stash
    \/ flowBranch_checkout \/ flowBranch_pop \/ flowBranch_fetch
    \/ flowBranch_pull \/ flowBranch_create \/ flowBranch_pr

----------------------------------------------------------------------------
(* flowUndo: pick a commit of the recent history and reset to it *)

LogLimit == 15

RECURSIVE Reverse(_)
Reverse(s) == IF s = <<>> THEN <<>> ELSE Append(Reverse(Tail(s)), Head(s))

\* git.log(limit): the newest `limit` commits, newest first
git_log(limit) ==
    LET r == Reverse(Head_) IN SubSeq(r, 1, IF Len(r) < limit THEN Len(r) ELSE limit)

flowUndo_log ==
    /\ pc = "u_log"
    /\ history' = git_log(LogLimit)
    /\ pc' = IF git_log(LogLimit) = <<>> THEN "return" ELSE "u_select"
    /\ notes' = IF git_log(LogLimit) = <<>> THEN notes \cup {"No commit history found to undo."}
                ELSE notes
    /\ UNCHANGED <<envVars, repoVars, op, runs, relVars, brVars, targetHash, resetMode, safe,
                   log, posted, runVars>>

\* if (targetHash === history[0].hash) return
SelectedCurrent(h, hist) == h = hist[1]

flowUndo_select ==
    /\ pc = "u_select"
    /\ \/ /\ pc' = "return"
          /\ cancelled' = TRUE
          /\ UNCHANGED <<targetHash, notes>>
       \/ \E h \in Range(history) :
          /\ UNCHANGED cancelled
          /\ targetHash' = h
          /\ pc' = IF SelectedCurrent(h, history) THEN "return" ELSE "u_mode"
          /\ notes' = IF SelectedCurrent(h, history)
                      THEN notes \cup {"You selected the current commit. No changes made."}
                      ELSE notes
    /\ UNCHANGED <<envVars, repoVars, op, runs, relVars, brVars, history, resetMode, safe,
                   log, posted, runRest>>

flowUndo_mode ==
    /\ pc = "u_mode"
    /\ \/ /\ pc' = "return"
          /\ cancelled' = TRUE
          /\ UNCHANGED resetMode
       \/ \E m \in {"--soft", "--mixed", "--hard"} :
          /\ resetMode' = m
          /\ pc' = IF m = "--hard" THEN "u_confirm" ELSE "u_reset"
          /\ UNCHANGED cancelled
    /\ UNCHANGED <<envVars, repoVars, op, runs, relVars, brVars, history, targetHash, safe,
                   log, notes, posted, runRest>>

\* the confirm prompt yields true, false or the cancel symbol (which is truthy)
Truthy(v) == v # "false"
isCancel(v) == v = "cancel"

HardDeclined_OnlyCancel(v) == isCancel(v)

\* if (!safe || isCancel(safe)) return
HardDeclined(v) == ~Truthy(v) \/ isCancel(v)

flowUndo_confirm ==
    /\ pc = "u_confirm"
    /\ \E v \in {"true", "false", "cancel"} :
        /\ safe' = v
        /\ pc' = IF HardDeclined(v) THEN "return" ELSE "u_reset"
        /\ cancelled' = isCancel(v)
    /\ UNCHANGED <<envVars, repoVars, op, runs, relVars, brVars, history, targetHash,
                   resetMode, log, notes, posted, runRest>>

\* position of commit h in the history HEAD points at
At(h) == CHOOSE i \in 1..Len(Head_) : Head_[i] = h
Undone(h) == {Head_[i] : i \in (At(h) + 1)..Len(Head_)}

\* git reset <mode> <hash>: soft keeps the undone changes staged, mixed moves
\* them and the index to the working tree, hard drops them
flowUndo_reset ==
    /\ pc = "u_reset"
    /\ \E ok \in BOOLEAN :
        /\ sh("git reset " \o resetMode, ok)
        /\ heads' = (IF ok THEN [heads EXCEPT ![branch] = SubSeq(@, 1, At(targetHash))]
                     ELSE heads)
        /\ index' = (IF ~ok THEN index
                     ELSE IF resetMode = "--soft" THEN index \cup Undone(targetHash) ELSE {})
        /\ wt' = (IF ~ok \/ resetMode = "--soft" THEN wt
                  ELSE IF resetMode = "--mixed" THEN wt \cup index \cup Undone(targetHash)
                  ELSE {})
        /\ notes' = notes \cup {IF ok THEN "Reset complete" ELSE "Reset failed"}
    /\ pc' = "return"
    /\ UNCHANGED <<envVars, branch, branches, tags, stash, remote, nextId, op, runs, relVars,
                   brVars, undoVars, posted, runVars>>

flowUndo ==
    \/ flowUndo_log \/ flowUndo_select \/ flowUndo_mode
    \/ flowUndo_confirm \/ flowUndo_reset

----------------------------------------------------------------------------
(* flowSync: fetch origin, look the branch up on origin, pull it *)

\* git ls-remote --heads origin <curr>, failure ignored: "" unless the branch is there
lsRemote(ok) == IF ok /\ branch \in remote THEN "ref" ELSE ""

NoRemote_Unchecked(remoteRef) == FALSE

\* if (!remoteRef) { "No remote branch"; return }
NoRemote(remoteRef) == remoteRef = ""

flowSync_fetch ==
    /\ pc = "s_fetch"
    /\ \E ok \in BOOLEAN :
        /\ sh("git fetch origin", ok)
        /\ pc' = IF ok THEN "s_lsremote" ELSE "return"
        /\ notes' = IF ok THEN notes ELSE notes \cup {"Sync Failed"}
    /\ UNCHANGED <<envVars, repoVars, op, runs, relVars, brVars, undoVars, posted, runVars>>

flowSync_lsremote ==
    /\ pc = "s_lsremote"
    /\ \E ok \in BOOLEAN :
        /\ sh("git ls-remote", ok)
        /\ pc' = IF NoRemote(lsRemote(ok)) THEN "return" ELSE "s_pull"
        /\ notes' = IF NoRemote(lsRemote(ok)) THEN notes \cup {"No remote branch"} ELSE notes
    /\ UNCHANGED <<envVars, repoVars, op, runs, relVars, brVars, undoVars, posted, runVars>>

flowSync_pull ==
    /\ pc = "s_pull"
    /\ \E ok \in BOOLEAN, new \in BOOLEAN :
        /\ sh("git pull origin", ok)
        /\ Pulled(ok, new)
        /\ pc' = IF ok THEN "s_upstream" ELSE "return"
        /\ notes' = IF ok THEN notes ELSE notes \cup {"Sync Failed"}
    /\ UNCHANGED <<envVars, branch, branches, tags, index, wt, stash, remote, op, runs,
                   relVars, brVars, undoVars, posted, runVars>>

\* git branch --set-upstream-to, failure ignored
flowSync_upstream ==
    /\ pc = "s_upstream"
    /\ \E ok \in BOOLEAN : sh("git branch --set-upstream-to", ok)
    /\ notes' = notes \cup {"Sync Complete"}
    /\ pc' = "return"
    /\ UNCHANGED <<envVars, repoVars, op, runs, relVars, brVars, undoVars, posted, runVars>>

flowSync ==
    \/ flowSync_fetch \/ flowSync_lsremote \/ flowSync_pull \/ flowSync_upstream

----------------------------------------------------------------------------
(* flowStash: save the changes under a message, or pop a chosen entry *)

\* select save / pop (or cancel: return); pop reads git.stashList() first
flowStash_action ==
    /\ pc = "st_action"
    /\ \E action \in {"save", "pop", "cancel"} :
        /\ pc' = CASE action = "save" -> "st_save"
                   [] action = "pop" -> (IF stash = <<>> THEN "return" ELSE "st_pop")
                   [] action = "cancel" -> "return"
        /\ notes' = IF action = "pop" /\ stash = <<>> THEN notes \cup {"No stashes found."}
                    ELSE notes
        /\ cancelled' = (action = "cancel")
    /\ UNCHANGED <<envVars, repoVars, op, runs, relVars, brVars, undoVars, log, posted,
                   runRest>>

\* git.stashSave(msg): throws before any command when the tree is clean
stashSave_Clean == ~isDirty

\* text (or cancel: return), then git.stashSave(msg || "Otto Stash"); whatever it
\* throws is shown as a note
flowStash_save ==
    /\ pc = "st_save"
    /\ \/ /\ cancelled' = TRUE
          /\ UNCHANGED <<stash, index, wt, log, notes>>
       \/ /\ stashSave_Clean
          /\ notes' = notes \cup {"No local changes to stash"}
          /\ UNCHANGED <<stash, index, wt, log, cancelled>>
       \/ /\ ~stashSave_Clean
          /\ \E m \in {"", "WIP"}, ok \in BOOLEAN :
              /\ sh("git stash push", ok)
              /\ stash' = (IF ok THEN <<[msg |-> (IF m = "" THEN "Otto Stash" ELSE m),
                                         run |-> runs, ch |-> index \cup wt]>> \o stash
                           ELSE stash)
              /\ index' = (IF ok THEN {} ELSE index)
              /\ wt' = (IF ok THEN {} ELSE wt)
              /\ notes' = notes \cup {IF ok THEN "Stashed successfully" ELSE "Stash failed"}
          /\ UNCHANGED cancelled
    /\ pc' = "return"
    /\ UNCHANGED <<envVars, heads, branch, branches, tags, remote, nextId, op, runs, relVars,
                   brVars, undoVars, posted, runRest>>

\* the stash list without its i-th entry
Drop(st, i) == SubSeq(st, 1, i - 1) \o SubSeq(st, i + 1, Len(st))

\* select an entry (or cancel: return), then git stash pop <ref>: an entry that
\* applies is dropped; a conflict keeps it and may leave its changes in the tree
flowStash_pop ==
    /\ pc = "st_pop"
    /\ \/ /\ cancelled' = TRUE
          /\ UNCHANGED <<stash, wt, log, notes>>
       \/ \E i \in 1..Len(stash), ok \in BOOLEAN, applied \in BOOLEAN :
          /\ ok => applied
          /\ sh("git stash pop", ok)
          /\ wt' = (IF applied THEN wt \cup stash[i].ch ELSE wt)
          /\ stash' = (IF ok THEN Drop(stash, i) ELSE stash)
          /\ notes' = notes \cup {IF ok THEN "Popped successfully"
                                   ELSE "Pop resulted in conflicts"}
          /\ UNCHANGED cancelled
    /\ pc' = "return"
    /\ UNCHANGED <<envVars, heads, branch, branches, tags, index, remote, nextId, op, runs,
                   relVars, brVars, undoVars, posted, runRest>>

flowStash == flowStash_action \/ flowStash_save \/ flowStash_pop

----------------------------------------------------------------------------
Next == mainMenu \/ flowRelease \/ flowBranch \/ flowStash \/ flowUndo \/ flowSync

\* interactive menu mode
Spec == Init /\ [][Next]_vars

\* a session started in a repository that gives every flow something to act
\* on (MaxBase commits of which only the newest may carry a tag, the branch on
\* origin, an entry in the stash list), or outside any repository
Session ==
    /\ Init
    /\ isRepo => /\ Len(Head_) = MaxBase /\ tags \subseteq {MaxBase}
                 /\ branch \in remote /\ stash # <<>>

SpecSession == Session /\ [][Next]_vars

\* `otto release`
SpecRelease == Boot("release") /\ [][flowRelease]_vars

\* `otto branch`
SpecBranch == Boot("branch") /\ [][flowBranch]_vars

\* `otto undo`
SpecUndo == Boot("undo") /\ [][flowUndo]_vars

\* `otto sync`
SpecSync == Boot("sync") /\ [][flowSync]_vars

----------------------------------------------------------------------------
(* Properties of a release run *)

Release == op = "release"
PushFailed == PushCmds \cap Failed # {}
PushOk == PushCmds \cap Ok # {}
RollbackRan == Cmds \cap RollbackCmds # {}
DiffRead == "git add ." \in Ok /\ pc # "r_diff"

\* C1: in a release run whose staged diff, read after `git add .`, is empty,
\* the commit step is skipped: no commit-message generation request is made,
\* no `git commit` is executed and no commit is created.
C1_EmptyDiffSkipsCommit ==
    (Release /\ DiffRead /\ diff = "") =>
        /\ "generate" \notin Cmds
        /\ "git commit" \notin Cmds
        /\ runCommit = 0
        /\ pc # "r_generate" /\ pc # "r_commit"

\* an empty diff was read and the run went on to push
C1_Witness ==
    /\ Release /\ DiffRead /\ diff = ""
    /\ "No changes to commit" \in notes
    /\ PushOk /\ pc = "return"

C3_OnlyPushTriggersRollback ==
    (Release /\ ~PushFailed
        /\ Failed \cap (StepCmds \cup {"generate", "git commit", "version"}) # {}) =>
        ~RollbackRan

\* C4: whenever the rollback's soft reset runs after a failed push in a run
\* whose commit step made a commit, the commit it removes from HEAD is that
\* commit, and that commit's changes are staged afterwards.
C4_ResetRemovesRunCommit ==
    (Release /\ runCommit # 0 /\ PushFailed /\ "git reset --soft HEAD~1" \in Ok) =>
        /\ runCommit \notin Range(Head_)
        /\ runCommit \in index

\* C5: a failure of the commit step (the generation request or `git commit`)
\* aborts the remaining steps: no version bump and no push is executed.
C5_CommitFailureAborts ==
    (Release /\ ("generate" \in Failed \/ "git commit" \in Failed)) =>
        /\ "version" \notin Cmds
        /\ Cmds \cap PushCmds = {}

\* C6: if fetch, install or build fails, the run ends there: no `git add`, no
\* commit, no version bump, no push and no rollback command is executed, and
\* the repository is as the run found it.
C6_PipelineFailureStops ==
    (Release /\ Failed \cap {"git fetch origin main", "install", "run build"} # {}) =>
        /\ pc = "return"
        /\ Cmds \cap ({"git add .", "generate", "git commit", "version"}
                       \cup PushCmds \cup RollbackCmds) = {}
        /\ Head_ = start.head /\ tags = start.tags /\ index = {}
        /\ isDirty = start.dirty

\* the build script failed after fetch and install succeeded
C6_Witness ==
    /\ Release /\ pc = "return"
    /\ "run build" \in Failed /\ "install" \in Ok

\* C7: after a successful push, a failing or unconfigured webhook call never
\* makes the rollback run, and the run ends with the "Deployed" outcome.
C7_WebhookNeverFailsRelease ==
    (Release /\ PushOk) =>
        /\ ~RollbackRan
        /\ pc \in {"r_logToSheet", "return"}
        /\ pc = "return" => ("Deployed" \in notes /\ "Push Failed. Rolling back" \notin notes)

\* the POST was attempted and failed, and the run ended
C7_Witness ==
    /\ Release /\ PushOk /\ pc = "return"
    /\ Len(posted) = 1 /\ ~posted[1].ok

Count(c) == Cardinality({i \in 1..Len(log) : log[i].cmd = c})
IsPrefix(s, t) == Len(s) <= Len(t) /\ SubSeq(t, 1, Len(s)) = s

\* C11: a release run with type patch and push mode safe, a non-empty staged
\* diff, a webhook configured and a successful push executes exactly one
\* version bump, one `git commit`, one push with tags and without --force, and
\* one webhook POST whose message field is the subject of the commit made in
\* the run.
C11_ExampleRun ==
    (Release /\ pc = "return" /\ config.type = "patch" /\ config.push = "safe"
        /\ diff # "" /\ webhook /\ PushOk) =>
        /\ Count("version") = 1
        /\ Count("git commit") = 1
        /\ Count("git push origin HEAD --tags") = 1
        /\ Count("git push origin HEAD --force --tags") = 0
        /\ Len(posted) = 1
        /\ runCommit # 0
        /\ posted[1].message = runSubject

\* the steps of the pipeline, in the order of the flow
Rank(c) ==
    CASE c = "git fetch origin main" -> 1
      [] c = "install" -> 2
      [] c = "run build" -> 3
      [] c = "git add ." -> 4
      [] c = "generate" -> 5
      [] c = "git commit" -> 6
      [] c = "version" -> 7
      [] c \in PushCmds -> 8
      [] OTHER -> 0

\* C12: in a release run the steps are issued in the order fetch, install,
\* build, stage, commit, version bump, push, webhook report: a step is issued
\* only after every step issued before it succeeded, none is issued twice, and
\* the report is made once at most and only after a successful push.
C12_StepsInOrder ==
    Release =>
        /\ \A i, j \in 1..Len(log) :
              (i < j /\ Rank(log[i].cmd) > 0 /\ Rank(log[j].cmd) > 0) =>
                  log[i].ok /\ Rank(log[i].cmd) < Rank(log[j].cmd)
        /\ Len(posted) <= 1
        /\ posted # <<>> => PushOk

\* C16: whenever the push fails, the soft reset is attempted by the time the
\* run ends, also when the tag deletion failed.
C16_ResetAlwaysAttempted ==
    (Release /\ pc = "return" /\ PushFailed) => "git reset --soft HEAD~1" \in Cmds

\* C17: every tag present when a release run starts is present throughout it.
C17_KeepsEarlierTags == Release => start.tags \subseteq tags

\* C18: a release run whose push failed never removes a commit that was on HEAD
\* when it started: the history at the start stays a prefix of HEAD's history
\* (so with no commit made in the run, HEAD ends where it started).
C18_KeepsEarlierCommits == (Release /\ PushFailed) => IsPrefix(start.head, Head_)

----------------------------------------------------------------------------
(* Properties of the branch, undo and sync flows *)

Before(c, d) == c \in Cmds /\ d \in Cmds /\ Pos(c) < Pos(d)

\* C8: in the switch flow with a dirty tree a stash push is executed before the
\* checkout and a stash pop after it, and a pop only ever after a successful
\* checkout; if the checkout fails no pop is attempted and the stash entry the
\* flow made is still on top of the stash list when the flow ends.
C8_StashCheckoutPop ==
    (op = "branch") =>
        /\ "git stash pop" \in Cmds =>
              "git checkout" \in Ok /\ Before("git checkout", "git stash pop")
        /\ (start.dirty /\ "git checkout" \in Cmds) =>
              Before("git stash push", "git checkout")
        /\ (start.dirty /\ "git checkout" \in Ok /\ pc = "return") =>
              "git stash pop" \in Cmds
        /\ "git checkout" \in Failed =>
              /\ pc = "return"
              /\ "git stash pop" \notin Cmds
              /\ "git stash push" \in Ok =>
                    /\ stash # <<>>
                    /\ stash[1].msg = "Otto Auto-Switch" /\ stash[1].run = runs
                    /\ Tail(stash) = start.stash

\* the tree was dirty, the stash was made and the checkout failed
C8_Witness ==
    /\ op = "branch" /\ pc = "return" /\ start.dirty
    /\ "git stash push" \in Ok /\ "git checkout" \in Failed
    /\ start.stash # <<>>

\* C9: in the undo flow, selecting the current commit (the first history entry)
\* executes no git reset; git reset --hard is executed only after the operator
\* accepted the confirmation; declining or cancelling it executes no reset and
\* leaves the repository as it was.
C9_UndoGuards ==
    (op = "undo") =>
        /\ (targetHash # 0 /\ targetHash = history[1]) =>
              Cmds = {} /\ pc = "return"
        /\ "git reset --hard" \in Cmds => safe = "true"
        /\ safe \in {"false", "cancel"} =>
              /\ Cmds = {} /\ pc = "return"
              /\ Head_ = start.head /\ isDirty = start.dirty
        /\ Cmds # {} => targetHash \in Range(start.head) \ {Last(start.head)}

\* hard mode was chosen for an older commit and the confirmation was declined
C9_Witness ==
    /\ op = "undo" /\ pc = "return"
    /\ resetMode = "--hard" /\ safe = "false"
    /\ targetHash # 0 /\ targetHash # history[1]

\* C10 (as claimed): in a sync run inside a repository, on a branch that origin
\* does not have, the tool reports this and performs no fetch and no pull.
C10_Original ==
    (op = "sync" /\ isRepo /\ pc = "return" /\ branch \notin remote) =>
        /\ "No remote branch" \in notes
        /\ "git fetch origin" \notin Cmds
        /\ "git pull origin" \notin Cmds

\* C10 (amended): in a sync run whose initial `git fetch origin` succeeded, on
\* a branch that origin does not have, the tool reports this and performs no
\* pull (and no upstream change): the fetch is the only command before the
\* lookup, and HEAD is left where it was.
C10_NoRemoteNoPull ==
    (op = "sync" /\ branch \notin remote) =>
        /\ "git pull origin" \notin Cmds
        /\ "git branch --set-upstream-to" \notin Cmds
        /\ pc \notin {"s_pull", "s_upstream"}
        /\ Head_ = start.head
        /\ (pc = "return" /\ "git fetch origin" \in Ok) =>
              /\ "No remote branch" \in notes
              /\ Cmds = {"git fetch origin", "git ls-remote"}

\* origin lacks the branch, the lookup itself succeeded, and the run reported it
C10_Witness ==
    /\ op = "sync" /\ pc = "return" /\ branch \notin remote
    /\ "git ls-remote" \in Ok
    /\ "No remote branch" \in notes

\* C13: a mutating operation of the git facade is never repeated, and the
\* auto-stash of the switch flow does not report success (stashed = true) when
\* its `git stash push` failed.
C13_StashReportsFailure ==
    (op = "branch") =>
        /\ \A c \in Cmds : Count(c) = 1
        /\ "git stash push" \in Failed => ~stashed

\* C15: in the switch flow, when the stash pop after a successful checkout
\* fails, the flow ends there: the pop is the last command and was issued once,
\* the repository is on the target branch, and the operator is told about the
\* conflict.
C15_PopConflictStops ==
    (op = "branch" /\ "git stash pop" \in Failed) =>
        /\ pc = "return"
        /\ "git checkout" \in Ok
        /\ Count("git stash pop") = 1
        /\ Last(log).cmd = "git stash pop"
        /\ branch = target /\ branch # "main"
        /\ "Switched, but stash pop had conflicts." \in notes
        /\ "Switched to target" \notin notes

\* the flow stashed the changes, switched, and the pop left a conflict in the tree
C15_Witness ==
    /\ op = "branch" /\ pc = "return"
    /\ "git stash push" \in Ok /\ "git stash pop" \in Failed
    /\ wt # {} /\ stash # <<>> /\ stash[1].msg = "Otto Auto-Switch"

IsSuffix(s, t) == Len(s) <= Len(t) /\ SubSeq(t, Len(t) - Len(s) + 1, Len(t)) = s

\* C19: in the switch flow a stash pop is executed only after the flow's own
\* `git stash push` succeeded, and the entries that were in the stash list when
\* the flow started stay in it.
C19_PopsOnlyOwnStash ==
    (op = "branch") =>
        /\ "git stash pop" \in Cmds => "git stash push" \in Ok
        /\ IsSuffix(start.stash, stash)

----------------------------------------------------------------------------
(* Properties of a menu session *)

\* C14 (as claimed): once the operator has cancelled a prompt, the process
\* exits: the flow is left and the menu is not presented again.
C14_Original == cancelled => pc \in {"return", "exit"}

\* C14 (amended): cancelling a prompt of a flow ends that flow at once: the
\* step that takes the cancel and every later step of the run issue no command
\* and leave the repository alone; the process itself exits only for a cancel
\* of the update prompt or of the menu prompt, otherwise the flow returns and
\* the menu is presented again.
C14_CancelEndsFlow ==
    [][/\ cancelled' =>
             /\ log' = log /\ UNCHANGED repoVars
             /\ pc' \in {"return", "menu", "exit"}
       /\ (cancelled' /\ pc' = "exit") => pc \in {"m_confirm", "menu"}
       /\ (cancelled /\ pc = "return") => pc' = "menu"]_vars

\* the commit message prompt was cancelled after the generation request, and
\* the menu is shown again
C14_Witness ==
    /\ cancelled /\ pc = "menu" /\ op = "release"
    /\ "generate" \in Ok /\ Last(log).cmd = "generate"
    /\ index # {}

\* C20 (as claimed): the session ends only from the menu prompt (quit or
\* cancel) or, before the loop, from the update prompt.
C20_Original == [][pc' = "exit" => pc \in {"menu", "m_confirm"}]_vars

\* C20 (amended): whenever a flow has returned, with or without an error
\* reported, the menu is presented again; the session ends only from the menu
\* prompt, from the update prompt before the loop, or when the release flow
\* finds OPENAI_API_KEY missing at its commit step.
C20_MenuLoops ==
    [][/\ pc = "return" => pc' = "menu"
       /\ pc' = "exit" =>
             \/ pc \in {"menu", "m_confirm"}
             \/ pc = "r_generate" /\ ~apiKey]_vars

\* a release run whose pipeline failed has returned and the menu is shown again
C20_Witness ==
    /\ pc = "menu" /\ runs >= 1 /\ op = "release"
    /\ "install" \in Failed /\ "Pipeline Failed" \in notes

====
